---- MODULE Spec2Model ----
(***************************************************************************)
(* Page-turn animation engine of the SOCA interactive book:                *)
(*   - the page controls (TestPage.jsx, ExperienceFog.jsx) that write the  *)
(*     page index and the book-closed flag,                                *)
(*   - the flip orchestrator, the hinge/wedge-morph frame step and the     *)
(*     Actor drive of RealisticBook.jsx,                                   *)
(*   - the joint chain of PageActor.jsx.                                   *)
(*                                                                         *)
(* Numbers are fixed point: times are milliseconds, angles are multiples   *)
(* of pi/(4*QuarterPi), progress is in 1/PSCALE, eased progress in         *)
(* 1/ESCALE, lengths in 1/LSCALE.                                          *)
(***************************************************************************)
EXTENDS Integers, Sequences, FiniteSets, TLC

VARIABLES
    page,           \* pageAtom (UI)
    bookClosed,     \* bookClosedAtom (UI)
    prevPage,       \* prevPage.current
    isFlipping,     \* useState(false)
    flipStartTime,  \* flipStartTime.current
    flipDirection,  \* flipDirection.current, "next" or "prev"
    actorMounted,   \* number of PageActor instances mounted under the book
    timers,         \* pending setTimeout callbacks, as their due times
    now,            \* Date.now()
    rawProgress,    \* rawProgress computed by the last Actor frame
    progressStart,  \* flipStartTime.current as read by that frame, -1 before any
    rotationAngle,  \* PageActor state.current.rotationAngle
    actorGroupX,    \* actorGroupRef.current.position.x
    boneRotY,       \* skeleton.bones[i].rotation.y
    boneRotX,       \* skeleton.bones[i].rotation.x
    bonePosX,       \* skeleton.bones[i].position.x
    groupLeftRotY,  \* groupLeft.current.rotation.y
    groupRightRotY, \* groupRight.current.rotation.y
    coverLeftRotY,  \* coverGroupLeft.current.rotation.y
    coverRightRotY, \* coverGroupRight.current.rotation.y
    closedFactor,   \* closedFactor computed by the last frame
    meshLeftPage,   \* meshLeftPage.current: scale.x, scale.y, position.x
    meshRightPage,  \* meshRightPage.current: scale.x, scale.y, position.x
    wedgeYs,        \* pageBlockGeometry.userData.wedgeYs
    blockYs,        \* pageBlockGeometry.userData.blockYs
    isTopVertex,    \* pageBlockGeometry.userData.isTopVertex
    posY,           \* pageBlockGeometry.attributes.position, y of each vertex
    needsUpdate,    \* whether the last frame marked the position attribute dirty
    hist,           \* the last page-control operations and the index before each
    ops,            \* number of control presses so far
    frameRan,       \* whether useFrame has run at least once
    missing,        \* the refs whose .current is not set when a frame runs
    frameError,     \* whether a frame callback has thrown
    delayedPage,    \* FBXBook.jsx Book: useState(page)
    stepTimers      \* Book: pending goToPage timeouts, each with the page of its effect

flipVars  == <<prevPage, isFlipping, flipStartTime, flipDirection, actorMounted, timers>>
actorVars == <<rawProgress, progressStart, rotationAngle, actorGroupX, boneRotY, boneRotX, bonePosX>>
hingeVars == <<groupLeftRotY, groupRightRotY, coverLeftRotY, coverRightRotY>>
tableVars == <<wedgeYs, blockYs, isTopVertex>>
morphVars == <<closedFactor, meshLeftPage, meshRightPage, posY, needsUpdate>>
refVars   == <<missing, frameError>>
stepVars  == <<delayedPage, stepTimers>>
vars == <<page, bookClosed, prevPage, isFlipping, flipStartTime, flipDirection,
          actorMounted, timers, now, rawProgress, progressStart, rotationAngle,
          actorGroupX, boneRotY, boneRotX, bonePosX, groupLeftRotY, groupRightRotY, coverLeftRotY,
          coverRightRotY, closedFactor, meshLeftPage, meshRightPage, wedgeYs,
          blockYs, isTopVertex, posY, needsUpdate, hist, ops, frameRan,
          missing, frameError, delayedPage, stepTimers>>

----------------------------------------------------------------------------
(* Bounds of the model *)

TicksPerFlip == 2       \* clock steps per flip duration
MaxTime      == 3000    \* page controls and toggles stop after this time
MaxOps       == 2       \* control presses in a run
MaxLate      == 1       \* clock steps a timer callback may run late
MaxPage      == 10      \* cap of the page counter (Next Page has none)
QuarterPi    == 5000    \* angle resolution: pi/4 in angle units
LSCALE       == 100000  \* length resolution: 1.0 in length units
PSCALE       == 20      \* progress resolution: 1.0 in progress units

(* Program constants *)

FLIP_DURATION == 6000
PAGE_SEGMENTS == 30
PageCount     == 9

HalfPi == 2 * QuarterPi
Pi     == 4 * QuarterPi
ESCALE == PSCALE * PSCALE * PSCALE
TickMs == FLIP_DURATION \div TicksPerFlip

----------------------------------------------------------------------------
(* Math helpers *)

Abs(x) == IF x < 0 THEN -x ELSE x

Min(a, b) == IF a < b THEN a ELSE b

Max(a, b) == IF a > b THEN a ELSE b

Sign(x) == IF x > 0 THEN 1 ELSE IF x < 0 THEN -1 ELSE 0

(* a + (b - a) * s, with s in 1/scale *)
Lerp(a, b, s, scale) == a + ((b - a) * s) \div scale

(* Math.sin(x * Math.PI) for x = p / Pi in [0,1], result in 1/SSCALE.      *)
(* Bhaskara's rational approximation 16u/(5 - 4u), u = x(1 - x), on x      *)
(* taken in hundredths; exact at x = 0, 1/2 and 1.                         *)
SSCALE == 1000

SinPi(p) ==
    LET x == (p * 100) \div Pi
        u == x * (100 - x)
    IN  (16 * u * SSCALE) \div (50000 - 4 * u)

----------------------------------------------------------------------------
(* RealisticBook.jsx: easing, flip orchestration *)

(* Variant: the ease-in branch is used for every t *)
easeCubicIn(t) == 4 * t * t * t

(* t in 1/PSCALE, result in 1/ESCALE *)
easeCubicInOut(t) ==
    IF 2 * t < PSCALE
    THEN 4 * t * t * t
    ELSE ESCALE - ((2 * PSCALE - 2 * t) * (2 * PSCALE - 2 * t) * (2 * PSCALE - 2 * t)) \div 2

(* Variant: the comparison is reversed *)
FlipDirectionRev(newPage, oldPage) == IF newPage < oldPage THEN "next" ELSE "prev"

(* flipDirection.current = page > prevPage.current ? 'next' : 'prev' *)
FlipDirectionOf(newPage, oldPage) == IF newPage > oldPage THEN "next" ELSE "prev"

(* Variant: the Actor subtree is rendered unconditionally *)
RenderActorKeep(flag) == 1

(* {isFlipping && (<group ref={actorGroupRef}><PageActor ref={actorRef}/></group>)} *)
RenderActor(flag) == IF flag THEN 1 ELSE 0

ZeroBones == [i \in 0..PAGE_SEGMENTS |-> 0]

(* PageActor.jsx: ACTOR_WIDTH = PAGE_WIDTH + SPINE_OFFSET = 0.56 + 0.18 *)
ACTOR_WIDTH == (74 * LSCALE) \div 100

SEGMENT_WIDTH == ACTOR_WIDTH \div PAGE_SEGMENTS

(* Variant: each bone is placed at its absolute distance from the spine *)
BonePositionAbs(i) == i * SEGMENT_WIDTH

(* bone.position.x = i === 0 ? 0 : SEGMENT_WIDTH *)
BonePositionX(i) == IF i = 0 THEN 0 ELSE SEGMENT_WIDTH

(* Commit of a render with the given isFlipping value: the Actor subtree   *)
(* is mounted (a new PageActor: rotationAngle 0, new Bones, group at x 0), *)
(* kept, or unmounted.  An unmounted Actor's last values stay readable as  *)
(* the values it was retired with.                                         *)
Commit(flag) ==
    /\ actorMounted' = RenderActor(flag)
    /\ IF actorMounted = 0 /\ RenderActor(flag) > 0
       THEN /\ rotationAngle' = 0
            /\ actorGroupX' = 0
            /\ boneRotY' = ZeroBones
            /\ boneRotX' = ZeroBones
            /\ bonePosX' = [i \in 0..PAGE_SEGMENTS |-> BonePositionX(i)]
       ELSE UNCHANGED <<rotationAngle, actorGroupX, boneRotY, boneRotX, bonePosX>>
    /\ UNCHANGED <<rawProgress, progressStart>>

(* Variant: the effect does not compare the index with the previous one *)
PageChangedAlways(p, prev) == TRUE

(* if (page !== prevPage.current) *)
PageChanged(p, prev) == p # prev

(* Variant: a new trigger clears the pending timeout before setting its own *)
FlipEffectCancel(p) ==
    IF PageChanged(p, prevPage)
    THEN /\ isFlipping' = TRUE
         /\ flipStartTime' = now
         /\ flipDirection' = FlipDirectionOf(p, prevPage)
         /\ timers' = <<now + FLIP_DURATION>>
         /\ prevPage' = p
         /\ Commit(TRUE)
    ELSE UNCHANGED <<flipVars, actorVars>>

(* useEffect(() => { if (page !== prevPage.current) {...} }, [page]) run   *)
(* with the page index p just written by a control.                        *)
FlipEffect(p) ==
    IF PageChanged(p, prevPage)
    THEN /\ isFlipping' = TRUE
         /\ flipStartTime' = now
         /\ flipDirection' = FlipDirectionOf(p, prevPage)
         /\ timers' = Append(timers, now + FLIP_DURATION)
         /\ prevPage' = p
         /\ Commit(TRUE)
    ELSE UNCHANGED <<flipVars, actorVars>>

(* Variant: the callback runs without waiting for its delay *)
TimerDueAny(due, t) == TRUE

(* setTimeout(cb, 6000): the callback runs no earlier than its due time *)
TimerDue(due, t) == t >= due

(* Variant: the callback toggles the flag *)
TimerFireToggle ==
    /\ timers # <<>>
    /\ TimerDue(Head(timers), now)
    /\ timers' = Tail(timers)
    /\ isFlipping' = ~isFlipping
    /\ Commit(~isFlipping)
    /\ UNCHANGED <<page, bookClosed, prevPage, flipStartTime, flipDirection, now, hist, ops>>
    /\ UNCHANGED <<hingeVars, tableVars, morphVars, frameRan, refVars, stepVars>>

(* setTimeout(() => { setIsFlipping(false); }, 6000) firing *)
TimerFire ==
    /\ timers # <<>>
    /\ TimerDue(Head(timers), now)
    /\ timers' = Tail(timers)
    /\ isFlipping' = FALSE
    /\ Commit(FALSE)
    /\ UNCHANGED <<page, bookClosed, prevPage, flipStartTime, flipDirection, now, hist, ops>>
    /\ UNCHANGED <<hingeVars, tableVars, morphVars, frameRan, refVars, stepVars>>

(* Variant: the subtraction is reversed *)
ElapsedRev(t, start) == start - t

(* elapsed = now - flipStartTime.current *)
Elapsed(t, start) == t - start

(* Variant: the quotient is not clamped *)
RawProgressNoClamp(elapsed) == (elapsed * PSCALE) \div FLIP_DURATION

(* rawProgress = Math.min(elapsed / FLIP_DURATION, 1), in 1/PSCALE *)
RawProgressOf(elapsed) == Min((elapsed * PSCALE) \div FLIP_DURATION, PSCALE)

(* Variant: a Backward flip runs from +pi to 0 *)
CurrentAngleMirror(dir, smooth) ==
    LET isNext    == dir = "next"
        targetRot == IF isNext THEN -Pi ELSE 0
        startRot  == IF isNext THEN 0 ELSE Pi
    IN  Lerp(startRot, targetRot, smooth, ESCALE)

(* currentAngle = startRot + (targetRot - startRot) * smoothProgress *)
CurrentAngle(dir, smooth) ==
    LET isNext    == dir = "next"
        targetRot == IF isNext THEN -Pi ELSE 0
        startRot  == IF isNext THEN 0 ELSE -Pi
    IN  Lerp(startRot, targetRot, smooth, ESCALE)

(* Variant: startX and endX are exchanged *)
CurrentXSwapped(dir, smooth) ==
    LET isNext == dir = "next"
        rightX == LSCALE \div 100
        leftX  == -(LSCALE \div 100)
        startX == IF isNext THEN leftX ELSE rightX
        endX   == IF isNext THEN rightX ELSE leftX
    IN  Lerp(startX, endX, smooth, ESCALE)

(* currentX = startX + (endX - startX) * smoothProgress, rightX = 0.01 *)
CurrentX(dir, smooth) ==
    LET isNext == dir = "next"
        rightX == LSCALE \div 100
        leftX  == -(LSCALE \div 100)
        startX == IF isNext THEN rightX ELSE leftX
        endX   == IF isNext THEN leftX ELSE rightX
    IN  Lerp(startX, endX, smooth, ESCALE)

----------------------------------------------------------------------------
(* PageActor.jsx: per-frame joint update *)

(* MAX_BEND = 0.05 rad, in angle units (pi taken as 3.142) *)
MAX_BEND == (Pi * 50) \div 3142

(* progress = Math.min(Math.abs(rotationAngle) / Math.PI, 1), in angle units *)
ActorProgress(angle) == Min(Abs(angle), Pi)

(* Variant: the sine is taken over a quarter period *)
TurningTimeQuarter(angle) == SinPi(ActorProgress(angle) \div 2)

(* turningTime = Math.sin(progress * Math.PI), in 1/SSCALE *)
TurningTime(angle) == SinPi(ActorProgress(angle))

(* Variant: the curl grows linearly along the chain *)
BoneYawLinear(i, angle) ==
    IF i = 0
    THEN angle
    ELSE ((((i * MAX_BEND) \div PAGE_SEGMENTS) * TurningTime(angle))
            \div SSCALE) * (-Sign(angle))

(* bone.rotation.y of bone i *)
BoneYaw(i, angle) ==
    IF i = 0
    THEN angle
    ELSE ((((i * i * MAX_BEND) \div (PAGE_SEGMENTS * PAGE_SEGMENTS)) * TurningTime(angle))
            \div SSCALE) * (-Sign(angle))

(* bone.rotation.x of bone i; bone 0's pitch is never written *)
BonePitch(i, angle, old) ==
    IF i = 0
    THEN old
    ELSE ((IF i > 10 THEN (i * i * MAX_BEND) \div (PAGE_SEGMENTS * PAGE_SEGMENTS) ELSE 0)
            * TurningTime(angle)) \div SSCALE

----------------------------------------------------------------------------
(* RealisticBook.jsx: page-block geometry and its morph targets *)

PAGE_WIDTH == (128 * LSCALE) \div 100

(* The corners of the extruded rectangle moveTo(offset,0) .. lineTo(w,0.16): *)
(* x is -0.18 or PAGE_WIDTH, y is 0 or 0.16.                               *)
Vertices == 1..4

ShapeOffset == -((18 * LSCALE) \div 100)

MaxThickness == (16 * LSCALE) \div 100

GeoX(i) == IF i \in {1, 4} THEN ShapeOffset ELSE PAGE_WIDTH

GeoY(i) == IF i \in {1, 2} THEN 0 ELSE MaxThickness

Clamp(x, lo, hi) == Max(lo, Min(hi, x))

(* Variant: every vertex on or above the base counts as morphable *)
BuildIsTopAll(i) == GeoY(i) >= 0

(* isTopVertex[i] = y > 0.15 *)
BuildIsTop(i) == GeoY(i) > (15 * LSCALE) \div 100

(* blockYs[i] = y *)
BuildBlockY(i) == GeoY(i)

(* t = clamp((x - minX) / (maxX - minX), 0, 1); easedT = t*t*(3 - 2t);     *)
(* targetY = 0.04 + (0.16 - 0.04) * easedT; non-top vertices keep y.       *)
BuildWedgeY(i) ==
    IF BuildIsTop(i)
    THEN LET t      == Clamp(((GeoX(i) - ShapeOffset) * PSCALE) \div (PAGE_WIDTH - ShapeOffset), 0, PSCALE)
             easedT == t * t * (3 * PSCALE - 2 * t)
         IN  (4 * LSCALE) \div 100
               + ((MaxThickness - (4 * LSCALE) \div 100) * easedT) \div ESCALE
    ELSE GeoY(i)

----------------------------------------------------------------------------
(* RealisticBook.jsx: useFrame *)

(* easing.dampAngle(obj, "y", target, 0.4, delta) of maath: the angle moves *)
(* toward the target by an amount that grows with delta, never past it, and *)
(* snaps onto the target once within eps = 0.001 rad.  The distance left to *)
(* the target is abstracted to a ladder: a quarter turn, just outside eps,  *)
(* just inside eps.  The frame delta is abstracted to a class d: 0 no time  *)
(* passed, 1 a short frame (one rung down), 2 a long frame (down to just    *)
(* outside eps, or one rung from there).                                    *)
DampEps == Pi \div 3142

NearResidual == DampEps + 1

InsideResidual == DampEps - 1

DeltaClasses == 0..2

RungBelow(r) ==
    IF r > QuarterPi THEN QuarterPi
    ELSE IF r > NearResidual THEN NearResidual
    ELSE InsideResidual

ResidualAfter(r, d) ==
    IF d = 0 THEN r
    ELSE IF d = 1 THEN RungBelow(r)
    ELSE IF r > NearResidual THEN NearResidual ELSE RungBelow(r)

DampAngle(current, target, d) ==
    IF Abs(current - target) <= DampEps
    THEN target
    ELSE target - Sign(target - current) * ResidualAfter(Abs(target - current), d)

(* bookClosed ? targetRotationClosedLeft : 0, and the same on the right *)
HingeTargetLeft(closed) == IF closed THEN HalfPi ELSE 0

HingeTargetRight(closed) == IF closed THEN -HalfPi ELSE 0

(* The hinge statement (1..4, lines 141, 142, 145, 146) that dereferences a *)
(* ref whose .current is not set and so throws a TypeError; 5 if none does. *)
FirstMissingHinge ==
    IF "groupLeft" \in missing THEN 1
    ELSE IF "groupRight" \in missing THEN 2
    ELSE IF "coverGroupLeft" \in missing THEN 3
    ELSE IF "coverGroupRight" \in missing THEN 4
    ELSE 5

(* Variant: the right cover is damped towards the left target *)
HingeStepCopyPaste(d) ==
    LET targetRotationClosedLeft  == HalfPi
        targetRotationClosedRight == -HalfPi
        n == FirstMissingHinge
    IN  /\ groupLeftRotY'  = IF n > 1
                             THEN DampAngle(groupLeftRotY,  IF bookClosed THEN targetRotationClosedLeft  ELSE 0, d)
                             ELSE groupLeftRotY
        /\ groupRightRotY' = IF n > 2
                             THEN DampAngle(groupRightRotY, IF bookClosed THEN targetRotationClosedRight ELSE 0, d)
                             ELSE groupRightRotY
        /\ coverLeftRotY'  = IF n > 3
                             THEN DampAngle(coverLeftRotY,  IF bookClosed THEN targetRotationClosedLeft  ELSE 0, d)
                             ELSE coverLeftRotY
        /\ coverRightRotY' = IF n > 4
                             THEN DampAngle(coverRightRotY, IF bookClosed THEN targetRotationClosedLeft ELSE 0, d)
                             ELSE coverRightRotY

(* lines 137-146: the four hinges, in statement order up to the first that  *)
(* throws                                                                   *)
HingeStep(d) ==
    LET targetRotationClosedLeft  == HalfPi
        targetRotationClosedRight == -HalfPi
        n == FirstMissingHinge
    IN  /\ groupLeftRotY'  = IF n > 1
                             THEN DampAngle(groupLeftRotY,  IF bookClosed THEN targetRotationClosedLeft  ELSE 0, d)
                             ELSE groupLeftRotY
        /\ groupRightRotY' = IF n > 2
                             THEN DampAngle(groupRightRotY, IF bookClosed THEN targetRotationClosedRight ELSE 0, d)
                             ELSE groupRightRotY
        /\ coverLeftRotY'  = IF n > 3
                             THEN DampAngle(coverLeftRotY,  IF bookClosed THEN targetRotationClosedLeft  ELSE 0, d)
                             ELSE coverLeftRotY
        /\ coverRightRotY' = IF n > 4
                             THEN DampAngle(coverRightRotY, IF bookClosed THEN targetRotationClosedRight ELSE 0, d)
                             ELSE coverRightRotY

(* closedFactor = MathUtils.clamp(Math.abs(rotation.y) / (Math.PI / 2), 0, 1), in 1/CSCALE *)
CSCALE == HalfPi

(* Variant: the maximum is taken as pi instead of pi/2 *)
ClosedFactorFullTurn(angle) == Clamp((Abs(angle) * CSCALE) \div Pi, 0, CSCALE)

ClosedFactorOf(angle) == Clamp((Abs(angle) * CSCALE) \div HalfPi, 0, CSCALE)

(* targetScaleX, targetScaleY, targetPosX of lines 153-157 *)
MeshTarget(cf) ==
    LET targetScaleX == LSCALE - (((11 * LSCALE) \div 100) * cf) \div CSCALE
        targetScaleY == LSCALE - (((65 * LSCALE) \div 1000) * cf) \div CSCALE
        targetPosX   == PAGE_WIDTH - ((PAGE_WIDTH \div 100) * targetScaleX) \div (LSCALE \div 100)
    IN  [scaleX |-> targetScaleX, scaleY |-> targetScaleY, posX |-> targetPosX]

(* Variant: the step is added to the vertex's current y *)
NewYAccum(i, cf) == posY[i] + ((blockYs[i] - wedgeYs[i]) * cf) \div CSCALE

(* if (meshLeftPage.current) {...} / if (meshRightPage.current) {...} *)
MeshStep(mesh, ref, cf) == IF ref \in missing THEN mesh ELSE MeshTarget(cf)

(* newY = startY + (endY - startY) * closedFactor *)
NewY(i, cf) == Lerp(wedgeYs[i], blockYs[i], cf, CSCALE)

(* Math.abs(pos.getY(i) - newY) > 0.0001 *)
MorphThreshold == LSCALE \div 10000

(* Variant: the difference is compared without Math.abs *)
ShouldWriteSigned(oldY, newY) == oldY - newY > MorphThreshold

ShouldWrite(oldY, newY) == Abs(oldY - newY) > MorphThreshold

(* Variant: the blended y is stored into the open-profile table *)
MorphStepInPlace ==
    LET cf == ClosedFactorOf(groupLeftRotY')
    IN  /\ closedFactor' = cf
        /\ meshLeftPage' = MeshStep(meshLeftPage, "meshLeftPage", cf)
        /\ meshRightPage' = MeshStep(meshRightPage, "meshRightPage", cf)
        /\ wedgeYs' = [i \in Vertices |->
                         IF isTopVertex[i] /\ ShouldWrite(posY[i], NewY(i, cf))
                         THEN NewY(i, cf)
                         ELSE wedgeYs[i]]
        /\ needsUpdate' = \E i \in Vertices :
                              isTopVertex[i] /\ ShouldWrite(posY[i], NewY(i, cf))
        /\ UNCHANGED <<posY, blockYs, isTopVertex>>

(* lines 148-190: closedness, mesh scaling, vertex morph; reads the left    *)
(* page-block hinge as just damped.                                         *)
MorphStep ==
    LET cf == ClosedFactorOf(groupLeftRotY')
    IN  /\ closedFactor' = cf
        /\ meshLeftPage' = MeshStep(meshLeftPage, "meshLeftPage", cf)
        /\ meshRightPage' = MeshStep(meshRightPage, "meshRightPage", cf)
        /\ posY' = [i \in Vertices |->
                      IF isTopVertex[i] /\ ShouldWrite(posY[i], NewY(i, cf))
                      THEN NewY(i, cf)
                      ELSE posY[i]]
        /\ needsUpdate' = \E i \in Vertices :
                              isTopVertex[i] /\ ShouldWrite(posY[i], NewY(i, cf))
        /\ UNCHANGED tableVars

(* if (isFlipping && actorRef.current) {...} with the inner                 *)
(* if (actorGroupRef.current) {...}; then the mounted PageActor's own       *)
(* useFrame, past its if (!meshRef.current) return, reads the rotation just *)
(* set.                                                                     *)
ActorStep ==
    LET driven   == isFlipping /\ actorMounted > 0 /\ "actorRef" \notin missing
        elapsed  == Elapsed(now, flipStartTime)
        rp       == RawProgressOf(elapsed)
        smooth   == easeCubicInOut(rp)
        angle    == IF driven THEN CurrentAngle(flipDirection, smooth) ELSE rotationAngle
    IN  /\ rawProgress' = IF driven THEN rp ELSE rawProgress
        /\ progressStart' = IF driven THEN flipStartTime ELSE progressStart
        /\ rotationAngle' = angle
        /\ actorGroupX' = IF driven /\ "actorGroupRef" \notin missing
                          THEN CurrentX(flipDirection, smooth)
                          ELSE actorGroupX
        /\ IF actorMounted > 0 /\ "meshRef" \notin missing
           THEN /\ boneRotY' = [i \in 0..PAGE_SEGMENTS |-> BoneYaw(i, angle)]
                /\ boneRotX' = [i \in 0..PAGE_SEGMENTS |-> BonePitch(i, angle, boneRotX[i])]
           ELSE UNCHANGED <<boneRotY, boneRotX>>
        /\ UNCHANGED bonePosX

(* Variant: the frame that reaches progress 1 also ends the flip *)
FrameEndsFlip ==
    /\ \E d \in DeltaClasses : HingeStep(d)
    /\ IF FirstMissingHinge <= 4
       THEN /\ frameError' = TRUE
            /\ UNCHANGED <<tableVars, morphVars, actorVars, frameRan>>
       ELSE /\ MorphStep
            /\ ActorStep
            /\ frameRan' = TRUE
            /\ UNCHANGED frameError
    /\ isFlipping' = (isFlipping /\ rawProgress' < PSCALE)
    /\ UNCHANGED <<page, bookClosed, prevPage, flipStartTime, flipDirection, actorMounted,
                   timers, now, hist, ops, missing, stepVars>>

(* One rendered frame: the book's useFrame callback, then the PageActor's.  *)
(* A TypeError thrown by a hinge statement ends the frame there.            *)
Frame ==
    /\ \E d \in DeltaClasses : HingeStep(d)
    /\ IF FirstMissingHinge <= 4
       THEN /\ frameError' = TRUE
            /\ UNCHANGED <<tableVars, morphVars, actorVars, frameRan>>
       ELSE /\ MorphStep
            /\ ActorStep
            /\ frameRan' = TRUE
            /\ UNCHANGED frameError
    /\ UNCHANGED <<page, bookClosed, flipVars, now, hist, ops, missing, stepVars>>

----------------------------------------------------------------------------
(* Page controls: TestPage.jsx buttons, ExperienceFog.jsx "Book State" *)

InputAllowed == now <= MaxTime /\ ops < MaxOps

Last2(s) == IF Len(s) > 2 THEN Tail(s) ELSE s

Record(op) ==
    /\ hist' = Last2(Append(hist, [op |-> op, before |-> page]))
    /\ ops' = ops + 1

(* setPage((p) => p + 1) *)
NextPageOf(p) == p + 1

(* Variant: the lower clamp is off by one *)
PrevPageOff(p) == Max(1, p - 1)

(* setPage((p) => Math.max(0, p - 1)) *)
PrevPageOf(p) == Max(0, p - 1)

(* Next Page: disabled={bookClosed} / !bookClosed && setPage(...) *)
NextPage ==
    /\ InputAllowed
    /\ ~bookClosed
    /\ page < MaxPage
    /\ page' = NextPageOf(page)
    /\ FlipEffect(page')
    /\ Record("next")
    /\ UNCHANGED <<bookClosed, now, hingeVars, tableVars, morphVars, frameRan, refVars, stepVars>>

(* Prev Page: disabled={bookClosed} / !bookClosed && setPage(...) *)
PrevPage ==
    /\ InputAllowed
    /\ ~bookClosed
    /\ page' = PrevPageOf(page)
    /\ FlipEffect(page')
    /\ Record("prev")
    /\ UNCHANGED <<bookClosed, now, hingeVars, tableVars, morphVars, frameRan, refVars, stepVars>>

(* "Reset Page": button(() => setPage(0)) *)
ResetPage ==
    /\ InputAllowed
    /\ page' = 0
    /\ FlipEffect(page')
    /\ Record("reset")
    /\ UNCHANGED <<bookClosed, now, hingeVars, tableVars, morphVars, frameRan, refVars, stepVars>>

(* "Open/Close Book": button(() => setBookClosed((c) => !c)) *)
ToggleClose ==
    /\ InputAllowed
    /\ bookClosed' = ~bookClosed
    /\ ops' = ops + 1
    /\ UNCHANGED <<page, flipVars, actorVars, now, hist, hingeVars, tableVars, morphVars, frameRan, refVars, stepVars>>

(* The clock advances; past MaxTime it runs on only while a timer is       *)
(* pending, up to MaxLate clock steps after the last timer is due.         *)
Tick ==
    /\ \/ now < MaxTime
       \/ timers # <<>> /\ now < timers[Len(timers)] + MaxLate * TickMs
    /\ now' = now + TickMs
    /\ UNCHANGED <<page, bookClosed, flipVars, actorVars, hist, ops, hingeVars, tableVars, morphVars, frameRan, refVars, stepVars>>

----------------------------------------------------------------------------
(* FBXBook.jsx: the multi-page Book and its delayedPage stepper *)

(* bookStructure: the pages by number and originalIndex; the two fillers    *)
(* have originalIndex -1 and take their position in the list as number.     *)
BookStructure ==
    {[number |-> i, originalIndex |-> i] : i \in 0..(PageCount - 1)}
        \cup {[number |-> 1, originalIndex |-> -1],
              [number |-> PageCount, originalIndex |-> -1]}

(* Math.abs(page - delayedPage) > 2 ? 50 : 150 *)
StepDelay(target, dp) == IF Abs(target - dp) > 2 THEN 50 ELSE 150

(* if (page > delayedPage) return delayedPage + 1;                          *)
(* if (page < delayedPage) return delayedPage - 1;                          *)
StepToward(target, dp) ==
    IF target > dp THEN dp + 1
    ELSE IF target < dp THEN dp - 1
    ELSE dp

(* Variant: the cleanup leaves the pending timeout in place *)
ClearStepTimeoutNone(ts) == ts

(* return () => { clearTimeout(timeout); }: the timeout variable holds the  *)
(* timeout set last by this effect's goToPage                               *)
ClearStepTimeout(ts) == IF ts = <<>> THEN ts ELSE SubSeq(ts, 1, Len(ts) - 1)

(* goToPage of the effect that ran for page index target, the timeouts ts   *)
(* pending: the setDelayedPage updater and the timeout it sets              *)
GoToPage(target, ts) ==
    IF target = delayedPage
    THEN /\ delayedPage' = delayedPage
         /\ stepTimers' = ts
    ELSE /\ delayedPage' = StepToward(target, delayedPage)
         /\ stepTimers' = Append(ts, [target |-> target,
                                       delay  |-> StepDelay(target, delayedPage)])

RemoveAt(ts, i) == SubSeq(ts, 1, i - 1) \o SubSeq(ts, i + 1, Len(ts))

(* Page onClick: setPage(opened ? number : number + 1); a new index re-runs *)
(* the [page] effect: cleanup of the previous run, then goToPage().         *)
PageClick ==
    /\ InputAllowed
    /\ \E entry \in BookStructure :
          LET opened == delayedPage > entry.originalIndex
              target == IF opened THEN entry.number ELSE entry.number + 1
          IN  /\ target # page
              /\ page' = target
              /\ GoToPage(target, ClearStepTimeout(stepTimers))
    /\ ops' = ops + 1
    /\ UNCHANGED <<bookClosed, flipVars, actorVars, now, hist, hingeVars, tableVars,
                   morphVars, frameRan, refVars>>

(* a goToPage timeout firing: setTimeout(() => { goToPage(); }, delay) *)
StepTimerFire ==
    /\ stepTimers # <<>>
    /\ \E i \in 1..Len(stepTimers) :
          GoToPage(stepTimers[i].target, RemoveAt(stepTimers, i))
    /\ UNCHANGED <<page, bookClosed, flipVars, actorVars, now, hist, ops, hingeVars,
                   tableVars, morphVars, frameRan, refVars>>

----------------------------------------------------------------------------

(* The page index the book is constructed with: pageAtom outlives the book *)
InitPages == {0, PageCount}

(* The refs a frame may find unset, one way at a time *)
MissingSets ==
    { {"groupLeft"}, {"groupRight"}, {"coverGroupRight"},
      {"meshLeftPage", "meshRightPage"}, {"actorRef"}, {"actorGroupRef"}, {"meshRef"} }

InitBook ==
    /\ page \in InitPages
    /\ bookClosed = FALSE
    /\ prevPage = page
    /\ isFlipping = FALSE
    /\ flipStartTime = 0
    /\ flipDirection = "next"
    /\ actorMounted = 0
    /\ timers = <<>>
    /\ now = 0
    /\ rawProgress = 0
    /\ progressStart = -1
    /\ rotationAngle = 0
    /\ actorGroupX = 0
    /\ boneRotY = ZeroBones
    /\ boneRotX = ZeroBones
    /\ bonePosX = ZeroBones
    /\ groupLeftRotY = 0
    /\ groupRightRotY = 0
    /\ coverLeftRotY = 0
    /\ coverRightRotY = 0
    /\ closedFactor = 0
    /\ meshLeftPage = [scaleX |-> LSCALE, scaleY |-> LSCALE, posX |-> 0]
    /\ meshRightPage = [scaleX |-> LSCALE, scaleY |-> LSCALE, posX |-> 0]
    /\ wedgeYs = [i \in Vertices |-> BuildWedgeY(i)]
    /\ blockYs = [i \in Vertices |-> BuildBlockY(i)]
    /\ isTopVertex = [i \in Vertices |-> BuildIsTop(i)]
    /\ posY = [i \in Vertices |-> GeoY(i)]
    /\ needsUpdate = FALSE
    /\ hist = <<>>
    /\ ops = 0
    /\ frameRan = FALSE
    /\ frameError = FALSE
    /\ delayedPage = page
    /\ stepTimers = <<>>

(* Every ref is set before the first frame runs *)
Init == InitBook /\ missing = {}

(* The multi-page Book mounted on the same page index *)
BookInit == InitBook /\ missing = {}

(* The frame callbacks run with some ref unset *)
GuardInit == InitBook /\ page = 0 /\ missing \in MissingSets

Next ==
    \/ NextPage
    \/ PrevPage
    \/ ResetPage
    \/ ToggleClose
    \/ TimerFire
    \/ Frame
    \/ Tick

Spec == Init /\ [][Next]_vars

GuardNext ==
    \/ NextPage
    \/ ToggleClose
    \/ TimerFire
    \/ Frame
    \/ Tick

GuardSpec == GuardInit /\ [][GuardNext]_vars

BookNext ==
    \/ PageClick
    \/ StepTimerFire

BookSpec == BookInit /\ [][BookNext]_vars

(* A pending goToPage timeout eventually fires *)
BookFairSpec == BookSpec /\ WF_vars(StepTimerFire)

(* Timer callbacks due are eventually run and the clock keeps advancing *)
FairSpec == Spec /\ WF_vars(Tick) /\ WF_vars(TimerFire)

----------------------------------------------------------------------------
(* Properties *)

(* C1: at most one Actor is mounted, and an Actor is mounted only while    *)
(* isFlipping is true.                                                     *)
ActorOnlyWhileFlipping ==
    /\ actorMounted <= 1
    /\ actorMounted > 0 => isFlipping

(* reached: a re-triggered flip with one Actor and two timers pending *)
ActorLiveDuringRetrigger ==
    /\ actorMounted = 1
    /\ isFlipping
    /\ Len(timers) = 2

(* C2: a flip ends, retiring the Actor, and it ends only by a timer         *)
(* callback that runs at or after its due time, never by a frame; a flip    *)
(* with a single pending timer ends no earlier than FLIP_DURATION after its *)
(* start.                                                                   *)
FlipEndsByTimer ==
    /\ [][(isFlipping /\ ~isFlipping') =>
            /\ timers # <<>>
            /\ now >= Head(timers)
            /\ timers' = Tail(timers)
            /\ actorMounted' = 0]_vars
    /\ [][(isFlipping /\ ~isFlipping' /\ Len(timers) = 1) =>
            now >= flipStartTime + FLIP_DURATION]_vars
    /\ (isFlipping ~> (~isFlipping /\ actorMounted = 0))

(* reached: Idle after one flip whose last frame saw progress 1 *)
IdleAfterFullFlip ==
    /\ ops = 1
    /\ Len(hist) = 1
    /\ ~isFlipping
    /\ actorMounted = 0
    /\ timers = <<>>
    /\ rawProgress = PSCALE
    /\ now >= flipStartTime + FLIP_DURATION

(* C3: a page-index change during a flip overwrites flipStartTime and       *)
(* flipDirection in that step, keeps isFlipping and the one mounted Actor   *)
(* with its joint state, and adds a timer behind the pending one.           *)
RetriggerOverwrites ==
    [][(isFlipping /\ page' # page) =>
          /\ flipStartTime' = now
          /\ flipDirection' = (IF page' > page THEN "next" ELSE "prev")
          /\ isFlipping'
          /\ actorMounted = 1
          /\ actorMounted' = 1
          /\ rotationAngle' = rotationAngle
          /\ boneRotY' = boneRotY
          /\ timers # <<>>
          /\ timers' = Append(timers, now + FLIP_DURATION)]_vars

(* reached: a flip re-triggered in mid-flight, the first timer still pending *)
RetriggeredMidFlight ==
    /\ isFlipping
    /\ Len(timers) = 2
    /\ timers[1] < timers[2]
    /\ flipStartTime = timers[2] - FLIP_DURATION
    /\ rotationAngle # 0

(* C4: every change of the page index to a value other than prevPage        *)
(* starts one flip: isFlipping, flipStartTime = now, direction by the sign  *)
(* of the change, prevPage = the new index, one timer more.                 *)
IndexChangeStartsFlip ==
    [][(page' # prevPage) =>
          /\ isFlipping'
          /\ flipStartTime' = now
          /\ flipDirection' = (IF page' > prevPage THEN "next" ELSE "prev")
          /\ prevPage' = page'
          /\ Len(timers') = Len(timers) + 1]_vars

(* reached: a flip started by a jump of more than one page *)
FlipAfterJump ==
    /\ hist # <<>>
    /\ hist[Len(hist)].op = "reset"
    /\ hist[Len(hist)].before > 1
    /\ isFlipping
    /\ flipDirection = "prev"
    /\ prevPage = 0
    /\ flipStartTime = now

(* C5: after a single Next Page from page 0 and the firing of its timer,    *)
(* the root joint's rotation is -pi, the Actor is retired and the page      *)
(* index observed by the book is 1.                                         *)
RootAtMinusPiWhenRetired ==
    (/\ ops = 1
     /\ hist = <<[op |-> "next", before |-> 0]>>
     /\ timers = <<>>)
    => /\ boneRotY[0] = -Pi
       /\ actorMounted = 0
       /\ ~isFlipping
       /\ page = 1
       /\ prevPage = 1

(* C6: the progress computed by an Actor frame is in [0,1] *)
ProgressInRange == rawProgress \in 0..PSCALE

(* reached: an Actor frame that ran after the duration, timer not yet run *)
LateFrameSeen ==
    /\ isFlipping
    /\ actorMounted = 1
    /\ timers # <<>>
    /\ now > flipStartTime + FLIP_DURATION
    /\ rawProgress = PSCALE
    /\ rotationAngle = -Pi

(* C7: Next Page followed directly by Prev Page leaves the page index       *)
(* where it was.                                                            *)
NextPrevRoundTrip ==
    (/\ Len(hist) = 2
     /\ hist[1].op = "next"
     /\ hist[2].op = "prev")
    => page = hist[1].before

(* reached: Next then Prev pressed at page 0 *)
RoundTripDone ==
    /\ Len(hist) = 2
    /\ hist[1].op = "next"
    /\ hist[2].op = "prev"
    /\ hist[1].before = 0
    /\ page = 0

(* C8: the page index stays within [0, pageCount] *)
PageWithinCount == page \in 0..PageCount

CFSamples == {0, InsideResidual, NearResidual, QuarterPi, HalfPi - NearResidual, HalfPi}

ClosednessOfHinge ==
    frameRan =>
        /\ closedFactor \in 0..CSCALE
        /\ groupLeftRotY = 0 => closedFactor = 0
        /\ Abs(groupLeftRotY) >= HalfPi => closedFactor = CSCALE
        /\ Abs(groupLeftRotY) = QuarterPi => 2 * closedFactor = CSCALE
        /\ ClosedFactorOf(groupRightRotY) \in 0..CSCALE
        /\ groupRightRotY <= -HalfPi => ClosedFactorOf(groupRightRotY) = CSCALE
        /\ groupRightRotY = -QuarterPi => 2 * ClosedFactorOf(groupRightRotY) = CSCALE

(* reached: the hinge at pi/4 with closedness 0.5 *)
HalfClosed ==
    /\ frameRan
    /\ groupLeftRotY = QuarterPi
    /\ groupRightRotY = -QuarterPi
    /\ 2 * closedFactor = CSCALE

(* C12: the hinge targets depend on the book-closed flag alone, and once    *)
(* the four hinges are on their targets a further frame under the same flag *)
(* changes neither a hinge angle, nor the closedness, nor the page-block    *)
(* scale, nor any vertex position.                                          *)
HingesOnTarget ==
    /\ groupLeftRotY = HingeTargetLeft(bookClosed)
    /\ coverLeftRotY = HingeTargetLeft(bookClosed)
    /\ groupRightRotY = HingeTargetRight(bookClosed)
    /\ coverRightRotY = HingeTargetRight(bookClosed)

NoDriftAtTarget ==
    [][(frameRan /\ HingesOnTarget /\ bookClosed' = bookClosed)
        => /\ UNCHANGED hingeVars
           /\ closedFactor' = closedFactor
           /\ meshLeftPage' = meshLeftPage
           /\ meshRightPage' = meshRightPage
           /\ posY' = posY]_vars

(* reached: the book closed and settled, a later frame having written nothing *)
SettledClosed ==
    /\ frameRan
    /\ bookClosed
    /\ HingesOnTarget
    /\ closedFactor = CSCALE
    /\ \A i \in Vertices : isTopVertex[i] => posY[i] = blockYs[i]
    /\ ~needsUpdate

(* C13: the turning-time weight is sin(progress * pi): 0 at progress 0 and  *)
(* 1, 1 at progress 0.5; so at the start and at the end of a flip, in       *)
(* either direction, every child joint's yaw and pitch is 0, and at         *)
(* mid-flight the outermost joint carries the full bend.                    *)
ChildJoints == 1..PAGE_SEGMENTS

TablesNeverWritten ==
    [][/\ wedgeYs' = wedgeYs
       /\ blockYs' = blockYs
       /\ isTopVertex' = isTopVertex
       /\ wedgeYs' = [i \in Vertices |-> BuildWedgeY(i)]
       /\ blockYs' = [i \in Vertices |-> BuildBlockY(i)]
       /\ isTopVertex' = [i \in Vertices |-> BuildIsTop(i)]]_vars

(* reached: after a flip trigger, a toggle, frames that morphed the block   *)
(* half way and the timer firing                                            *)
MorphedAfterAllSteps ==
    /\ frameRan
    /\ ops = 2
    /\ Len(hist) = 1
    /\ bookClosed
    /\ timers = <<>>
    /\ ~isFlipping
    /\ 2 * closedFactor = CSCALE
    /\ \E i \in Vertices : posY[i] # wedgeYs[i] /\ posY[i] # blockYs[i]

(* C15: in a mounted Actor joint 0 has no positional offset and every later *)
(* joint is offset from its parent by the segment width; while the Actor    *)
(* stays mounted no step, a frame in particular, changes a joint position.  *)
JointsOnlyRotate ==
    /\ [](actorMounted > 0 =>
            /\ bonePosX[0] = 0
            /\ \A i \in ChildJoints : bonePosX[i] = SEGMENT_WIDTH)
    /\ [][(actorMounted > 0 /\ actorMounted' > 0) => bonePosX' = bonePosX]_vars

(* reached: a mounted Actor curled by a frame in mid-flight *)
CurledChainInPlace ==
    /\ actorMounted = 1
    /\ progressStart = flipStartTime
    /\ rotationAngle = -HalfPi
    /\ boneRotY[PAGE_SEGMENTS] # 0
    /\ bonePosX[0] = 0
    /\ bonePosX[PAGE_SEGMENTS] = SEGMENT_WIDTH

(* C16: a frame that finds an object it acts on unset (a hinge group, a     *)
(* page-block mesh, the Actor handle, the Actor container, the Actor mesh)  *)
(* skips that update: no frame throws, and the state the update would write *)
(* is left as it was.                                                       *)
IsFrameStep == UNCHANGED <<page, bookClosed, flipVars, now, ops>>

GuardedUpdatesSkip ==
    IsFrameStep =>
        /\ "meshLeftPage" \in missing => meshLeftPage' = meshLeftPage
        /\ "meshRightPage" \in missing => meshRightPage' = meshRightPage
        /\ "actorRef" \in missing =>
              UNCHANGED <<rawProgress, rotationAngle, actorGroupX, boneRotY, boneRotX>>
        /\ "actorGroupRef" \in missing => actorGroupX' = actorGroupX
        /\ "meshRef" \in missing => UNCHANGED <<boneRotY, boneRotX>>

NoRetireBeforeDuration ==
    [][((isFlipping /\ ~isFlipping') \/ (actorMounted > 0 /\ actorMounted' = 0))
        => /\ now >= flipStartTime + FLIP_DURATION
           /\ RawProgressOf(Elapsed(now, flipStartTime)) = PSCALE]_vars

(* C18, as claimed: once more than FLIP_DURATION has passed since the last  *)
(* page-index change the orchestrator is Idle with no Actor.                *)
IdleWithinDuration ==
    now > flipStartTime + FLIP_DURATION => (~isFlipping /\ actorMounted = 0)

(* C18, amended: the callback scheduled by the last page-index change is    *)
(* the last one pending and runs no earlier than FLIP_DURATION after that   *)
(* change; once it has run the orchestrator is Idle with no Actor, and it   *)
(* becomes Flipping again only by a page-index change; a timer callback     *)
(* always leaves it Idle.                                                   *)
IsTimerStep == timers # <<>> /\ timers' = Tail(timers)

IdleOnceTimersRan ==
    /\ [](timers = <<>> => (~isFlipping /\ actorMounted = 0))
    /\ [](timers # <<>> => timers[Len(timers)] = flipStartTime + FLIP_DURATION)
    /\ [][IsTimerStep => (~isFlipping' /\ actorMounted' = 0 /\ now >= Head(timers))]_vars
    /\ [][(IsTimerStep /\ timers' = <<>>) => now >= flipStartTime + FLIP_DURATION]_vars
    /\ [][(~isFlipping /\ isFlipping') => page' # page]_vars

(* reached: Idle after a re-triggered flip, the callback left over from the *)
(* first trigger and the one of the second both run                         *)
IdleAfterLeftoverCallbacks ==
    /\ timers = <<>>
    /\ ~isFlipping
    /\ actorMounted = 0
    /\ Len(hist) = 2
    /\ hist[1].op = "next"
    /\ hist[2].op = "next"
    /\ flipStartTime > 0
    /\ now >= flipStartTime + FLIP_DURATION

(* C19: between two Actor frames that read the same flipStartTime the       *)
(* progress does not decrease, and once 1 it stays 1; the progress gets     *)
(* smaller only in a frame that reads a flipStartTime newly written by a    *)
(* page-index change.                                                       *)
ProgressMonotone ==
    /\ [][(progressStart >= 0 /\ progressStart' = progressStart)
            => /\ rawProgress' >= rawProgress
               /\ rawProgress = PSCALE => rawProgress' = PSCALE]_vars
    /\ [][rawProgress' < rawProgress
            => /\ progressStart' # progressStart
               /\ progressStart' = flipStartTime]_vars

(* reached: a re-triggered flip whose progress, restarted from 0, is 1 *)
ProgressRestartedAndFull ==
    /\ isFlipping
    /\ actorMounted = 1
    /\ Len(timers) = 2
    /\ flipStartTime > 0
    /\ progressStart = flipStartTime
    /\ rawProgress = PSCALE

(* C20: the step that takes the orchestrator from Idle to Flipping steps    *)
(* the page blocks to the new page index, so it changes the state of a page *)
(* block (mesh scale and position, vertex positions); the retiring of the   *)
(* Actor then changes nothing in the page blocks.                           *)
pageBlockVars == <<meshLeftPage, meshRightPage, posY, wedgeYs, blockYs, isTopVertex>>

BlockSteppedOnTrigger ==
    /\ [][(~isFlipping /\ isFlipping') => pageBlockVars' # pageBlockVars]_vars
    /\ [][(actorMounted > 0 /\ actorMounted' = 0) => UNCHANGED pageBlockVars]_vars

(* C21: the root joint angle is lerp(start, end, ease(progress)), start 0   *)
(* and end -pi for a Forward flip, start -pi and end 0 for a Backward flip: *)
(* start at progress 0, end at progress 1, half way at progress 0.5, and    *)
(* monotonic in the progress; ease(0) = 0, ease(0.5) = 0.5, ease(1) = 1.    *)
ProgressValues == 0..PSCALE

DirectionalStart(dir) == IF dir = "next" THEN 0 ELSE -Pi

DirectionalEnd(dir) == IF dir = "next" THEN -Pi ELSE 0

IsActorFrame == IsFrameStep /\ isFlipping /\ actorMounted > 0

EaseIsMonotone ==
    /\ easeCubicInOut(0) = 0
    /\ easeCubicInOut(PSCALE) = ESCALE
    /\ PSCALE % 2 = 0 => 2 * easeCubicInOut(PSCALE \div 2) = ESCALE
    /\ \A p \in ProgressValues : \A q \in ProgressValues :
          p <= q => /\ easeCubicInOut(p) <= easeCubicInOut(q)
                    /\ CurrentAngle("next", easeCubicInOut(p)) >= CurrentAngle("next", easeCubicInOut(q))
                    /\ CurrentAngle("prev", easeCubicInOut(p)) <= CurrentAngle("prev", easeCubicInOut(q))

RootAngleIsEasedLerp ==
    /\ [](EaseIsMonotone)
    /\ [][IsActorFrame =>
            /\ rawProgress' = 0 => rotationAngle' = DirectionalStart(flipDirection)
            /\ rawProgress' = PSCALE => rotationAngle' = DirectionalEnd(flipDirection)
            /\ 2 * rawProgress' = PSCALE => rotationAngle' = -HalfPi
            /\ rotationAngle' \in -Pi..0
            /\ (progressStart = flipStartTime /\ rawProgress' > rawProgress /\ rawProgress > 0)
                  => Abs(rotationAngle' - DirectionalEnd(flipDirection))
                       <= Abs(rotationAngle - DirectionalEnd(flipDirection))]_vars

(* reached: a Backward flip half way, the root joint at -pi/2 *)
BackwardHalfWay ==
    /\ isFlipping
    /\ actorMounted = 1
    /\ flipDirection = "prev"
    /\ Len(timers) = 1
    /\ progressStart = flipStartTime
    /\ 2 * rawProgress = PSCALE
    /\ rotationAngle = -HalfPi

(* C22: on every Actor frame joint 0's yaw is the root angle, child joint   *)
(* i's yaw is -sign(rootAngle) * w * maxBend * (i/N)^2 with maxBend 0.05,   *)
(* its magnitude non-decreasing in i, and the pitch is non-zero only for    *)
(* i > 10, scaled by the same w.                                            *)
IsPageActorFrame == IsFrameStep /\ actorMounted > 0

JointWeight == TurningTime(rotationAngle')

QuadraticCurl ==
    [][IsPageActorFrame =>
        /\ boneRotY'[0] = rotationAngle'
        /\ Abs(SSCALE * Abs(boneRotY'[PAGE_SEGMENTS]) - MAX_BEND * JointWeight) < SSCALE
        /\ \A i \in ChildJoints :
              /\ boneRotY'[i] = -Sign(rotationAngle') * Abs(boneRotY'[i])
              /\ Abs(PAGE_SEGMENTS * PAGE_SEGMENTS * Abs(boneRotY'[i])
                       - i * i * Abs(boneRotY'[PAGE_SEGMENTS]))
                    <= 3 * PAGE_SEGMENTS * PAGE_SEGMENTS
              /\ i > 1 => Abs(boneRotY'[i - 1]) <= Abs(boneRotY'[i])
              /\ i <= 10 => boneRotX'[i] = 0
              /\ i > 10 => boneRotX'[i] = Abs(boneRotY'[i])
              /\ boneRotX'[i] # 0 => (i > 10 /\ JointWeight > 0)]_vars

(* reached: the chain fully curled half way through a flip *)
FullCurlHalfWay ==
    /\ actorMounted = 1
    /\ rotationAngle = -HalfPi
    /\ boneRotY[0] = -HalfPi
    /\ boneRotY[PAGE_SEGMENTS] = MAX_BEND
    /\ boneRotY[1] = 0
    /\ boneRotX[10] = 0
    /\ boneRotX[11] > 0
    /\ boneRotX[PAGE_SEGMENTS] = MAX_BEND

(* C23: the Actor container's x is updated with the root angle from the     *)
(* same eased progress: Forward +0.01 -> -0.01, Backward -0.01 -> +0.01,    *)
(* always within [-0.01, 0.01], and x = 0.01 + 0.02 * (rootAngle / pi) in   *)
(* both directions.                                                         *)
SpineRightX == LSCALE \div 100

SpineShiftFollowsAngle ==
    [][IsActorFrame =>
        /\ actorGroupX' \in -SpineRightX..SpineRightX
        /\ Abs(Pi * actorGroupX' - Pi * SpineRightX - 2 * SpineRightX * rotationAngle')
              <= Pi + 2 * SpineRightX
        /\ rawProgress' = 0 =>
              actorGroupX' = IF flipDirection = "next" THEN SpineRightX ELSE -SpineRightX
        /\ rawProgress' = PSCALE =>
              actorGroupX' = IF flipDirection = "next" THEN -SpineRightX ELSE SpineRightX]_vars

(* reached: both ends and the middle of the shift, in a Backward flip that  *)
(* has ended at +0.01                                                       *)
ShiftedToRightEdge ==
    /\ isFlipping
    /\ actorMounted = 1
    /\ flipDirection = "prev"
    /\ progressStart = flipStartTime
    /\ rawProgress = PSCALE
    /\ rotationAngle = 0
    /\ actorGroupX = SpineRightX

Morphable(i) == 100 * GeoY(i) > 15 * LSCALE

FlagIffVertexWritten ==
    [][(IsFrameStep /\ frameRan') =>
        /\ needsUpdate' <=> \E i \in Vertices :
                                /\ Morphable(i)
                                /\ Abs(posY[i] - NewY(i, closedFactor')) > MorphThreshold
        /\ needsUpdate' <=> posY' # posY
        /\ \A i \in Vertices :
              /\ Abs(posY[i] - NewY(i, closedFactor')) <= MorphThreshold => posY'[i] = posY[i]
              /\ ~Morphable(i) => posY'[i] = posY[i]
              /\ posY'[i] # posY[i] => posY'[i] = NewY(i, closedFactor')]_vars

(* reached: a frame that left a morphable vertex slightly off its new y     *)
(* and flagged nothing                                                      *)
SmallDifferenceNotFlagged ==
    /\ frameRan
    /\ ~needsUpdate
    /\ \E i \in Vertices :
          /\ Morphable(i)
          /\ posY[i] # NewY(i, closedFactor)
          /\ Abs(posY[i] - NewY(i, closedFactor)) <= MorphThreshold
    /\ \E i \in Vertices : ~Morphable(i) /\ posY[i] = GeoY(i)

(* C25: flip triggers, timer firings and the Actor's rotation and spine     *)
(* shift updates leave the vertices' y unchanged, only the morph step       *)
(* writes them; the hinge and morph steps leave isFlipping, flipStartTime,  *)
(* flipDirection and prevPage unchanged.                                    *)
HingeOrMorphStep == hingeVars' # hingeVars \/ morphVars' # morphVars

FlipOrTimerStep ==
    \/ page' # page
    \/ timers' # timers
    \/ isFlipping' # isFlipping
    \/ prevPage' # prevPage
    \/ flipStartTime' # flipStartTime
    \/ actorMounted' # actorMounted

SeparateWriters ==
    /\ [][FlipOrTimerStep => (posY' = posY /\ UNCHANGED hingeVars)]_vars
    /\ [][HingeOrMorphStep =>
             UNCHANGED <<isFlipping, flipStartTime, flipDirection, prevPage>>]_vars
    /\ [][posY' # posY =>
             /\ closedFactor' = ClosedFactorOf(groupLeftRotY')
             /\ \A i \in Vertices :
                   posY'[i] # posY[i] => posY'[i] = NewY(i, closedFactor')]_vars
    /\ [][(rotationAngle' # rotationAngle \/ actorGroupX' # actorGroupX) =>
             \A i \in Vertices :
                 posY'[i] \in {posY[i], NewY(i, closedFactor')}]_vars

(* reached: one frame of a flip in flight that moved the hinges, morphed a  *)
(* vertex and drove the Actor                                               *)
FlipAndMorphTogether ==
    /\ isFlipping
    /\ Len(timers) = 1
    /\ actorMounted = 1
    /\ rawProgress > 0
    /\ rotationAngle # 0
    /\ frameRan
    /\ needsUpdate
    /\ closedFactor > 0
    /\ groupLeftRotY # 0
    /\ \E i \in Vertices : posY[i] \notin {GeoY(i), wedgeYs[i]}

(* C26: at every frame, starting from all hinges at 0 and through any       *)
(* sequence of toggles, the left page-block hinge equals the left cover     *)
(* hinge, the right pair are equal, and the right angle is the negation of  *)
(* the left; the closedness computed from the left block's hinge equals the *)
(* closedness of the right block's hinge.                                   *)
HingesMirrored ==
    /\ groupLeftRotY = coverLeftRotY
    /\ groupRightRotY = coverRightRotY
    /\ groupRightRotY = -groupLeftRotY
    /\ coverRightRotY = -coverLeftRotY
    /\ groupLeftRotY \in 0..HalfPi
    /\ frameRan => closedFactor = ClosedFactorOf(groupRightRotY)

(* reached: the book reopened from part way closed, after two toggles *)
ReopeningPartWay ==
    /\ ops = 2
    /\ ~bookClosed
    /\ frameRan
    /\ groupLeftRotY \in 1..(HalfPi - 1)
    /\ groupRightRotY = -groupLeftRotY
    /\ coverRightRotY \in (1 - HalfPi)..(-1)
    /\ closedFactor \in 1..(CSCALE - 1)

(* C28: an operation that writes the page index with its current value     *)
(* (Prev Page at index 0, Reset Page at index 0) starts no flip:            *)
(* isFlipping, flipStartTime, flipDirection and prevPage are unchanged and  *)
(* no timer is scheduled.                                                   *)
SameIndexWritten == ops' # ops /\ bookClosed' = bookClosed /\ page' = page

SameIndexStartsNoFlip ==
    [][SameIndexWritten =>
         /\ UNCHANGED <<isFlipping, flipStartTime, flipDirection, prevPage>>
         /\ timers' = timers
         /\ actorMounted' = actorMounted]_vars

(* reached: Reset Page at index 0 after a Prev Page at index 0, the book    *)
(* still Idle                                                               *)
PrevAndResetAtZero ==
    /\ ops = 2
    /\ hist = <<[op |-> "prev", before |-> 0], [op |-> "reset", before |-> 0]>>
    /\ page = 0
    /\ prevPage = 0
    /\ ~isFlipping
    /\ timers = <<>>
    /\ actorMounted = 0

(* C29: while the book-closed flag is true, none of the page controls       *)
(* (Next Page, Prev Page, Reset Page) changes the page index, so no flip is *)
(* ever started while the book is closed.                                   *)
NoFlipWhileClosed ==
    [][bookClosed =>
         /\ page' = page
         /\ isFlipping' => isFlipping
         /\ Len(timers') <= Len(timers)
         /\ flipStartTime' = flipStartTime]_vars

(* C30: in the multi-page Book stepper delayedPage changes only by exactly  *)
(* +1 or -1 per step and always toward the current target page, never       *)
(* passing it; a change of the target cancels the pending step timer before *)
(* new stepping starts; and if the target stops changing, delayedPage       *)
(* eventually equals it and no step timer remains pending.                  *)
StepperSettled == delayedPage = page /\ stepTimers = <<>>

StepperWalksToTarget ==
    /\ [][delayedPage' # delayedPage =>
             /\ Abs(delayedPage' - delayedPage) = 1
             /\ Abs(page' - delayedPage') = Abs(page' - delayedPage) - 1]_vars
    /\ [][page' # page =>
             /\ Len(stepTimers') <= 1
             /\ \A i \in 1..Len(stepTimers') : stepTimers'[i].target = page'
             /\ stepTimers' # <<>> => delayedPage' # delayedPage]_vars
    /\ [](Len(stepTimers) <= 1)
    /\ [](\A i \in 1..Len(stepTimers) : stepTimers[i].target = page)
    /\ <>[]StepperSettled

(* reached: the stepper settled on the last page after a walk from the      *)
(* first and a change of target on the way                                  *)
SettledAfterRetarget ==
    /\ ops = 2
    /\ page = PageCount
    /\ delayedPage = PageCount
    /\ stepTimers = <<>>

====
